---- MODULE Spec2Model ----
(***************************************************************************)
(* A model of PDFDocTranslator: the chunker (PdfEditor.split_text), the    *)
(* retry decorator (utils.retry_api_call) and the bookmark splitter        *)
(* (PdfEditor.split_text_by_bookmarks).                                    *)
(*                                                                         *)
(* Strings are sequences of one-character strings; " " stands for any      *)
(* character for which str.isspace() is true.                              *)
(***************************************************************************)
EXTENDS Integers, Sequences, FiniteSets, TLC

\* ------------------------------------------------------------------ bounds
\* Longest text handed to split_text.
MaxTextLen == 4
\* Largest max_chunk_size handed to split_text (the smallest is -1).
MaxChunkSize == 3
\* Largest max_retries the decorator is built with (the smallest is -1).
MaxRetries == 2
\* Most pages of a document.
MaxPages == 2
\* Most bookmarks of an outline of nested leaves.
MaxEntries == 2
\* Most nodes (bookmarks and lists of sub-bookmarks) of an outline of any shape.
MaxNodes == 4
\* Longest haystack and longest needle handed to _find_ignoring_whitespace.
MaxHaystackLen == 4
MaxNeedleLen == 3
\* Longest page text and longest bookmark title of the documents on which the
\* refinement by title markers is checked.
MaxPageLen == 3
MaxTitleLen == 2
\* Longest text of a chapter handed to the translation loop of main.
MaxChapterLen == 3

\* ----------------------------------------------------------------- helpers
Char == {"a", "b", " "}

StrUpTo(n) == UNION {[1..k -> Char] : k \in 0..n}

Min(a, b) == IF a <= b THEN a ELSE b

\* Python's s[a:b] for 0 <= a: the end is clipped to len(s), an empty range is "".
PySlice(s, a, b) == SubSeq(s, a + 1, Min(b, Len(s)))

RECURSIVE Concat(_)
Concat(ss) == IF ss = <<>> THEN <<>> ELSE Head(ss) \o Concat(Tail(ss))

VARIABLES
    \* split_text
    text, max_chunk_size, start, chunks, st_pc, st_result,
    \* retry_api_call.wrapper
    max_retries, initial_delay, retries, current_delay, calls, sleeps,
    w_pc, w_result,
    \* split_text_by_bookmarks: reader.pages, as the text extract_text() gives
    \* for each page
    pages,
    \* reader.outline
    bookmarks,
    all_bookmarks_info, sorted_all_bookmarks_info,
    \* the number of iterations of the chapter loop that have run
    i,
    \* start_page, end_page and chapter_text (before the refinement) of the
    \* last iteration
    start_page, end_page, chapter_text,
    chapters,
    \* "start", "loop", "done"
    bm_pc,
    \* what the function returned: "None" or "chapters"
    returned,
    \* _find_ignoring_whitespace: its arguments, its result, "start", "scan"
    \* or "done", and the locals of its scan loop
    find_haystack, find_needle, find_offset, find_result, find_pc,
    find_h_idx, find_n_idx, find_potential_start,
    \* main: config.get("max_chunk_size"); whether time.sleep(sleep_time)
    \* raises (a sleep_time that is negative or no number)
    cfg_max_chunk_size, sleep_raises,
    \* what split_text_by_bookmarks returned: the items of the OrderedDict, and
    \* whether it returned None instead
    chapters_dict, split_failed,
    \* max_chunk_size after the test of its value
    main_max_chunk_size,
    translated_chapters, original_texts_for_output,
    \* i of the chapter loop, sub_chunks, translated_sub_chunks and j of the
    \* chunk loop
    main_i, sub_chunks, translated_sub_chunks, main_j,
    \* the calls of translate_text_chunk made so far
    translate_calls,
    \* "start", "split", "chapter", "chunks", "done", "exit"
    main_pc,
    \* the external calls of one function of GoogleAdaptor: the function, the
    \* number of the call it is at, the calls it has made, and "site" (before
    \* a call), "wait" (in the wrapper), "done" or "failed"
    save_function, save_site, save_log, save_pc

splitVars == <<text, max_chunk_size, start, chunks, st_pc, st_result>>

retryVars == <<max_retries, initial_delay, retries, current_delay, calls,
               sleeps, w_pc, w_result>>

bmVars == <<pages, bookmarks, all_bookmarks_info, sorted_all_bookmarks_info,
            i, start_page, end_page, chapter_text, chapters, bm_pc, returned>>

findVars == <<find_haystack, find_needle, find_offset, find_result, find_pc,
              find_h_idx, find_n_idx, find_potential_start>>

mainVars == <<cfg_max_chunk_size, sleep_raises, chapters_dict, split_failed,
              main_max_chunk_size, translated_chapters,
              original_texts_for_output, main_i, sub_chunks,
              translated_sub_chunks, main_j, translate_calls, main_pc>>

saveVars == <<save_function, save_site, save_log, save_pc>>

vars == <<splitVars, retryVars, bmVars, findVars, mainVars, saveVars>>

\* =================================================================
\* PdfEditor.split_text
\* =================================================================

\* What split_text returns for an input it rejects (the two `return []`).
RejectedResultReturnsText(t) == <<t>>

RejectedResult(t) == <<>>

\* `end = min(start + max_chunk_size, len(text))`
ChunkEndOvershoots(s, n, t) == Min(s + n + 1, Len(t))

ChunkEnd(s, n, t) == Min(s + n, Len(t))

SplitIdle ==
    /\ text = <<>> /\ max_chunk_size = 0 /\ start = 0 /\ chunks = <<>>
    /\ st_pc = "idle" /\ st_result = <<>>

SplitInit ==
    /\ text \in StrUpTo(MaxTextLen)
    /\ max_chunk_size \in -1..MaxChunkSize
    /\ start = 0
    /\ chunks = <<>>
    /\ st_pc = "start"
    /\ st_result = <<>>

\* `if not text: return []`
SplitTextEmpty ==
    /\ st_pc = "start"
    /\ text = <<>>
    /\ st_result' = RejectedResult(text)
    /\ st_pc' = "done"
    /\ UNCHANGED <<text, max_chunk_size, start, chunks>>
    /\ UNCHANGED <<retryVars, bmVars, findVars, mainVars, saveVars>>

\* `if max_chunk_size <= 0: return []`
SplitTextBadSize ==
    /\ st_pc = "start"
    /\ text # <<>>
    /\ max_chunk_size <= 0
    /\ st_result' = RejectedResult(text)
    /\ st_pc' = "done"
    /\ UNCHANGED <<text, max_chunk_size, start, chunks>>
    /\ UNCHANGED <<retryVars, bmVars, findVars, mainVars, saveVars>>

\* `chunks = []; start = 0`
SplitTextBegin ==
    /\ st_pc = "start"
    /\ text # <<>>
    /\ max_chunk_size > 0
    /\ chunks' = <<>>
    /\ start' = 0
    /\ st_pc' = "loop"
    /\ UNCHANGED <<text, max_chunk_size, st_result>>
    /\ UNCHANGED <<retryVars, bmVars, findVars, mainVars, saveVars>>

\* One iteration of `while start < len(text)`.
SplitTextLoop ==
    /\ st_pc = "loop"
    /\ start < Len(text)
    /\ LET end == ChunkEnd(start, max_chunk_size, text)
       IN /\ chunks' = Append(chunks, PySlice(text, start, end))
          /\ start' = end
    /\ UNCHANGED <<text, max_chunk_size, st_pc, st_result>>
    /\ UNCHANGED <<retryVars, bmVars, findVars, mainVars, saveVars>>

\* The loop ends: `return chunks`.
SplitTextReturn ==
    /\ st_pc = "loop"
    /\ ~(start < Len(text))
    /\ st_result' = chunks
    /\ st_pc' = "done"
    /\ UNCHANGED <<text, max_chunk_size, start, chunks>>
    /\ UNCHANGED <<retryVars, bmVars, findVars, mainVars, saveVars>>

SplitNext ==
    \/ SplitTextEmpty
    \/ SplitTextBadSize
    \/ SplitTextBegin
    \/ SplitTextLoop
    \/ SplitTextReturn

\* =================================================================
\* utils.retry_api_call
\* =================================================================
backoff == 2

\* jitter = 0.1, in tenths; sleeps are measured in tenths of a second.
JitterTenths == 1

retry_status_codes == {500, 502, 503, 504}

\* status_code = None: the error carries no status.
NoStatus == -1

\* What one invocation of the wrapped function does: it returns a value or
\* raises.  id is the number of the attempt, so that the failure of one attempt
\* is told from the failure of another.
Outcome(kind, status, id) == [kind |-> kind, status |-> status, id |-> id]

Outcomes(id) ==
    {Outcome("return", NoStatus, id), Outcome("Exception", NoStatus, id),
     Outcome("Exception", 503, id)}
    \cup {Outcome(k, s, id) : k \in {"HttpError", "APIError"},
                              s \in {503, 500, 404, NoStatus}}

\* The implicit `return None` of a wrapper whose loop body never ran.
ReturnsNone == Outcome("None", NoStatus, 0)

\* `except (HttpError, APIError) as e`
IsApiError(e) == e.kind \in {"HttpError", "APIError"}

\* `status_code in retry_status_codes`, for an error the first except catches
RetryableAnyStatus(e) == IsApiError(e)

Retryable(e) == IsApiError(e) /\ e.status \in retry_status_codes

\* `if retries < max_retries`
RetriesLeftOffByOne(r, m) == r <= m

RetriesLeft(r, m) == r < m

\* `wait_time = current_delay + random.uniform(-jitter * current_delay,
\*                                             jitter * current_delay)`
WaitTimesTwiceTheJitter(d) ==
    (10 * d - 2 * JitterTenths * d)..(10 * d + 2 * JitterTenths * d)

WaitTimes(d) == (10 * d - JitterTenths * d)..(10 * d + JitterTenths * d)

RetryIdle ==
    /\ max_retries = 0 /\ initial_delay = 1 /\ retries = 0
    /\ current_delay = 1 /\ calls = <<>> /\ sleeps = <<>>
    /\ w_pc = "idle" /\ w_result = ReturnsNone

RetryInit ==
    /\ max_retries \in -1..MaxRetries
    /\ initial_delay \in {1, 2}
    /\ retries = 0
    /\ current_delay = 1
    /\ calls = <<>>
    /\ sleeps = <<>>
    /\ w_pc = "start"
    /\ w_result = ReturnsNone

\* The wrapper entered without the assignments to its locals.
WrapperEnterKeepsState ==
    /\ w_pc = "start"
    /\ w_pc' = "loop"
    /\ UNCHANGED <<max_retries, initial_delay, retries, current_delay, calls,
                   sleeps, w_result>>
    /\ UNCHANGED <<splitVars, bmVars, findVars, mainVars, saveVars>>

\* `retries = 0; current_delay = initial_delay`
WrapperEnter ==
    /\ w_pc = "start"
    /\ retries' = 0
    /\ current_delay' = initial_delay
    /\ w_pc' = "loop"
    /\ UNCHANGED <<max_retries, initial_delay, calls, sleeps, w_result>>
    /\ UNCHANGED <<splitVars, bmVars, findVars, mainVars, saveVars>>

\* `while retries <= max_retries` is false: the wrapper falls off its end.
WrapperLoopExit ==
    /\ w_pc = "loop"
    /\ ~(retries <= max_retries)
    /\ w_pc' = "returned"
    /\ w_result' = ReturnsNone
    /\ UNCHANGED <<max_retries, initial_delay, retries, current_delay, calls,
                   sleeps>>
    /\ UNCHANGED <<splitVars, bmVars, findVars, mainVars, saveVars>>

\* `return func(*args, **kwargs)`
WrapperReturn ==
    /\ w_pc = "loop"
    /\ retries <= max_retries
    /\ \E e \in Outcomes(Len(calls) + 1) :
        /\ e.kind = "return"
        /\ calls' = Append(calls, e)
        /\ w_result' = e
    /\ w_pc' = "returned"
    /\ UNCHANGED <<max_retries, initial_delay, retries, current_delay, sleeps>>
    /\ UNCHANGED <<splitVars, bmVars, findVars, mainVars, saveVars>>

\* A retryable status with retries left, retried without the sleep.
WrapperRetryWithoutSleep ==
    /\ w_pc = "loop"
    /\ retries <= max_retries
    /\ \E e \in Outcomes(Len(calls) + 1) :
        /\ Retryable(e)
        /\ RetriesLeft(retries, max_retries)
        /\ calls' = Append(calls, e)
    /\ retries' = retries + 1
    /\ current_delay' = current_delay * backoff
    /\ UNCHANGED <<max_retries, initial_delay, w_pc, w_result, sleeps>>
    /\ UNCHANGED <<splitVars, bmVars, findVars, mainVars, saveVars>>

\* A retryable status with retries left: count, sleep, grow the delay, loop.
WrapperRetry ==
    /\ w_pc = "loop"
    /\ retries <= max_retries
    /\ \E e \in Outcomes(Len(calls) + 1) :
        /\ Retryable(e)
        /\ RetriesLeft(retries, max_retries)
        /\ calls' = Append(calls, e)
    /\ retries' = retries + 1
    /\ \E w \in WaitTimes(current_delay) :
        sleeps' = Append(sleeps, [wait |-> w, nominal |-> current_delay,
                                  after |-> Len(calls) + 1])
    /\ current_delay' = current_delay * backoff
    /\ UNCHANGED <<max_retries, initial_delay, w_pc, w_result>>
    /\ UNCHANGED <<splitVars, bmVars, findVars, mainVars, saveVars>>

\* A retryable status with no retry left: `raise e`.
WrapperExhausted ==
    /\ w_pc = "loop"
    /\ retries <= max_retries
    /\ \E e \in Outcomes(Len(calls) + 1) :
        /\ Retryable(e)
        /\ ~RetriesLeft(retries, max_retries)
        /\ calls' = Append(calls, e)
        /\ w_result' = e
    /\ w_pc' = "raised"
    /\ UNCHANGED <<max_retries, initial_delay, retries, current_delay, sleeps>>
    /\ UNCHANGED <<splitVars, bmVars, findVars, mainVars, saveVars>>

\* An HttpError/APIError whose status is not a retry status: `raise e`.
WrapperNotRetryable ==
    /\ w_pc = "loop"
    /\ retries <= max_retries
    /\ \E e \in Outcomes(Len(calls) + 1) :
        /\ IsApiError(e)
        /\ ~Retryable(e)
        /\ calls' = Append(calls, e)
        /\ w_result' = e
    /\ w_pc' = "raised"
    /\ UNCHANGED <<max_retries, initial_delay, retries, current_delay, sleeps>>
    /\ UNCHANGED <<splitVars, bmVars, findVars, mainVars, saveVars>>

\* `except Exception as e: raise e`
WrapperUnexpected ==
    /\ w_pc = "loop"
    /\ retries <= max_retries
    /\ \E e \in Outcomes(Len(calls) + 1) :
        /\ e.kind = "Exception"
        /\ calls' = Append(calls, e)
        /\ w_result' = e
    /\ w_pc' = "raised"
    /\ UNCHANGED <<max_retries, initial_delay, retries, current_delay, sleeps>>
    /\ UNCHANGED <<splitVars, bmVars, findVars, mainVars, saveVars>>

\* The decorated function is called again after an invocation that returned
\* or raised: `wrapper` of the same closure (lines 26-28) runs anew.  calls and
\* sleeps are the log of the running invocation; w_result keeps what the
\* earlier invocation gave its caller; retries and current_delay hold what the
\* earlier invocation left until the new one assigns them.
WrapperInvokeAgain ==
    /\ w_pc \in {"returned", "raised"}
    /\ w_pc' = "start"
    /\ calls' = <<>>
    /\ sleeps' = <<>>
    /\ UNCHANGED <<max_retries, initial_delay, retries, current_delay,
                   w_result>>
    /\ UNCHANGED <<splitVars, bmVars, findVars, mainVars, saveVars>>

RetryNext ==
    \/ WrapperEnter
    \/ WrapperLoopExit
    \/ WrapperReturn
    \/ WrapperRetry
    \/ WrapperExhausted
    \/ WrapperNotRetryable
    \/ WrapperUnexpected

\* One invocation after the other of the same decorated function.
RetryAgainNext == RetryNext \/ WrapperInvokeAgain

\* =================================================================
\* PdfEditor.split_text_by_bookmarks
\* =================================================================

\* str.isspace() of one character.
IsSpace(c) == c = " "

\* `if page_text:` / `if full_text:` / `if chapter_text:` / `if next_title:`
\* (extract_text() giving None is as falsy as its giving "").
Truthy(s) == s # <<>>

\* The title of the single chapter of a document without bookmarks.
FallbackTitle ==
    <<"F", "u", "l", "l", " ", "T", "e", "x", "t", " ", "(", "N", "o", " ",
      "B", "o", "o", "k", "m", "a", "r", "k", "s", ")">>

\* An item of reader.outline: a Destination (leaf) or a list of sub-items.
\* res is what reader.get_destination_page_number(item) does for the leaf:
\* "page" (it returns page), "none" (it returns None) or "raise".
LeafNode(t, r, p) ==
    [leaf |-> TRUE, title |-> t, res |-> r, page |-> p, items |-> <<>>]

ListNode(its) ==
    [leaf |-> FALSE, title |-> <<>>, res |-> "none", page |-> 0, items |-> its]

\* The tuple (item.title, page_index, level) appended to all_bookmarks_info.
BookmarkInfo(t, p, l) == [title |-> t, page |-> p, level |-> l]

\* `page_index = reader.get_destination_page_number(item)` and the test
\* `if page_index is not None`, inside `try ... except Exception`.
ResolvedKeepsNone(item) == item.res \in {"page", "none"}

ResolvedKeepsRaised(item) == item.res \in {"page", "raise"}

Resolved(item) == item.res = "page"

\* The level handed to the recursive call: `_get_bookmarks(item, level + 1)`.
SubLevel(level) == level + 1

\* _get_bookmarks(outline_items, level): the entries appended, in order.
RECURSIVE _get_bookmarks(_, _)
_get_bookmarks(outline_items, level) ==
    IF outline_items = <<>> THEN <<>>
    ELSE LET item == Head(outline_items)
             here == IF ~item.leaf
                     THEN _get_bookmarks(item.items, SubLevel(level))
                     ELSE IF Resolved(item)
                          THEN <<BookmarkInfo(item.title, item.page, level)>>
                          ELSE <<>>
         IN here \o _get_bookmarks(Tail(outline_items), level)

\* sorted(all_bookmarks_info, key=lambda item: item[1]): Python's sort is
\* stable; an insertion sort that puts an entry after the entries of the same
\* page computes the same list.
RECURSIVE InsertByPage(_, _)
InsertByPage(e, s) ==
    IF s = <<>> THEN <<e>>
    ELSE IF e.page < Head(s).page THEN <<e>> \o s
         ELSE <<Head(s)>> \o InsertByPage(e, Tail(s))

RECURSIVE SortedByPageOf(_, _)
SortedByPageOf(s, acc) ==
    IF s = <<>> THEN acc ELSE SortedByPageOf(Tail(s), InsertByPage(Head(s), acc))

SortedKeepsOrder(s) == s

SortedByPage(s) == SortedByPageOf(s, <<>>)

\* The index of the first character at or after idx (0-based) that is not
\* whitespace, or len(s): `while idx < len and s[idx].isspace(): idx += 1`.
RECURSIVE SkipSpace(_, _)
SkipSpace(s, idx) ==
    IF idx < Len(s) /\ IsSpace(s[idx + 1]) THEN SkipSpace(s, idx + 1) ELSE idx

\* The code after the scan loop: the rest of the needle must be whitespace.
FindTail(needle, n_idx, potential_start) ==
    IF SkipSpace(needle, n_idx) = Len(needle) THEN potential_start ELSE -1

\* The scan loop `while h_idx < h_len` of _find_ignoring_whitespace, one
\* iteration per unfolding.
RECURSIVE FindLoop(_, _, _, _, _)
FindLoop(haystack, needle, h_idx, n_idx, potential_start) ==
    IF ~(h_idx < Len(haystack)) THEN FindTail(needle, n_idx, potential_start)
    ELSE LET h == SkipSpace(haystack, h_idx) IN
         IF h = Len(haystack) THEN FindTail(needle, n_idx, potential_start)
         ELSE LET n == SkipSpace(needle, n_idx) IN
              IF n = Len(needle) THEN potential_start
              ELSE IF haystack[h + 1] = needle[n + 1]
                   THEN FindLoop(haystack, needle, h + 1, n + 1,
                                 IF n = 0 THEN h ELSE potential_start)
                   ELSE FindLoop(haystack, needle,
                                 (IF potential_start # -1 THEN potential_start
                                  ELSE h) + 1,
                                 0, -1)

\* `if not needle: return start_offset`, then the scan.
FindWithoutEmptyNeedleTest(haystack, needle, start_offset) ==
    FindLoop(haystack, needle, start_offset, 0, -1)

_find_ignoring_whitespace(haystack, needle, start_offset) ==
    IF needle = <<>> THEN start_offset
    ELSE FindLoop(haystack, needle, start_offset, 0, -1)

\* str.strip()
RECURSIVE StripLeft(_)
StripLeft(s) ==
    IF s # <<>> /\ IsSpace(Head(s)) THEN StripLeft(Tail(s)) ELSE s

RECURSIVE StripRight(_)
StripRight(s) ==
    IF s # <<>> /\ IsSpace(s[Len(s)])
    THEN StripRight(SubSeq(s, 1, Len(s) - 1)) ELSE s

Strip(s) == StripRight(StripLeft(s))

\* The text of pages[from .. to-1] (0-based), a page at a time:
\* `page_text = page.extract_text(); if page_text: chapter_text += page_text`.
RECURSIVE PagesText(_, _, _)
PagesText(pgs, from, to) ==
    IF from >= to THEN <<>>
    ELSE (IF Truthy(pgs[from + 1]) THEN pgs[from + 1] ELSE <<>>)
         \o PagesText(pgs, from + 1, to)

\* `page_extraction_upper_bound = min(end_page + 1, len(reader.pages))`
UpperBoundExclusive(end, n) == Min(end, n)

page_extraction_upper_bound(end, n) == Min(end + 1, n)

\* `if not (0 <= start_page < len(reader.pages))`
StartPageValid(first, n) == 0 <= first /\ first < n

\* The page-range text of one bookmark (lines 199-232).
RawChapterText(pgs, first, end) ==
    IF ~StartPageValid(first, Len(pgs)) THEN <<>>
    ELSE LET upper == page_extraction_upper_bound(end, Len(pgs)) IN
         IF first < upper THEN PagesText(pgs, first, upper)
         ELSE <<>>

\* The marker refinement of one chapter's text (lines 239-262).
RefinedTextKeepsTitle(ctext, title, next_title) ==
    IF ~Truthy(ctext) THEN ctext
    ELSE LET start_pos == _find_ignoring_whitespace(ctext, title, 0) IN
         IF start_pos = -1 THEN ctext
         ELSE LET start_index == start_pos IN
              IF Truthy(next_title)
              THEN LET end_pos == _find_ignoring_whitespace(ctext, next_title,
                                                            start_index)
                   IN IF end_pos # -1
                      THEN PySlice(ctext, start_index, end_pos)
                      ELSE PySlice(ctext, start_index, Len(ctext))
              ELSE PySlice(ctext, start_index, Len(ctext))

RefinedTextCropsWithoutStart(ctext, title, next_title) ==
    IF ~Truthy(ctext) THEN ctext
    ELSE LET start_pos == _find_ignoring_whitespace(ctext, title, 0)
             start_index == IF start_pos = -1 THEN 0
                            ELSE start_pos + Len(title) IN
         IF Truthy(next_title)
         THEN LET end_pos == _find_ignoring_whitespace(ctext, next_title,
                                                       start_index)
              IN IF end_pos # -1
                 THEN PySlice(ctext, start_index, end_pos)
                 ELSE PySlice(ctext, start_index, Len(ctext))
         ELSE PySlice(ctext, start_index, Len(ctext))

RefinedText(ctext, title, next_title) ==
    IF ~Truthy(ctext) THEN ctext
    ELSE LET start_pos == _find_ignoring_whitespace(ctext, title, 0) IN
         IF start_pos = -1 THEN ctext
         ELSE LET start_index == start_pos + Len(title) IN
              IF Truthy(next_title)
              THEN LET end_pos == _find_ignoring_whitespace(ctext, next_title,
                                                            start_index)
                   IN IF end_pos # -1
                      THEN PySlice(ctext, start_index, end_pos)
                      ELSE PySlice(ctext, start_index, Len(ctext))
              ELSE PySlice(ctext, start_index, Len(ctext))

\* chapters[title] = value on an OrderedDict, kept as the sequence of its
\* items: a new key is appended, an existing key keeps its place and takes the
\* new value.
HasKey(d, k) == \E j \in 1..Len(d) : d[j].title = k

DictSet(d, k, v) ==
    IF HasKey(d, k)
    THEN [j \in 1..Len(d) |-> IF d[j].title = k THEN v ELSE d[j]]
    ELSE Append(d, v)

Chapter(t, x, l) == [title |-> t, text |-> x, level |-> l]

\* `chapters["Full Text (No Bookmarks)"] = {"text": full_text, "level": 0}`
FallbackChapterStripped(full_text) == Chapter(FallbackTitle, Strip(full_text), 0)

FallbackChapter(full_text) == Chapter(FallbackTitle, full_text, 0)

BookmarksIdle ==
    /\ pages = <<>> /\ bookmarks = <<>> /\ all_bookmarks_info = <<>>
    /\ sorted_all_bookmarks_info = <<>> /\ i = 0
    /\ start_page = 0 /\ end_page = 0 /\ chapter_text = <<>>
    /\ chapters = <<>> /\ bm_pc = "idle" /\ returned = "nothing"

\* `if not bookmarks:` with some text on the pages (lines 98-110).
FallbackFullText ==
    /\ bm_pc = "start"
    /\ bookmarks = <<>>
    /\ LET full_text == PagesText(pages, 0, Len(pages)) IN
        /\ Truthy(full_text)
        /\ chapters' = DictSet(chapters, FallbackTitle,
                               FallbackChapter(full_text))
    /\ returned' = "chapters"
    /\ bm_pc' = "done"
    /\ UNCHANGED <<pages, bookmarks, all_bookmarks_info,
                   sorted_all_bookmarks_info, i, start_page, end_page,
                   chapter_text>>
    /\ UNCHANGED <<splitVars, retryVars, findVars, mainVars, saveVars>>

\* `if not bookmarks:` with no text at all (lines 98-106, 111-113).
FallbackNoText ==
    /\ bm_pc = "start"
    /\ bookmarks = <<>>
    /\ ~Truthy(PagesText(pages, 0, Len(pages)))
    /\ returned' = "None"
    /\ bm_pc' = "done"
    /\ UNCHANGED <<pages, bookmarks, all_bookmarks_info,
                   sorted_all_bookmarks_info, i, start_page, end_page,
                   chapter_text, chapters>>
    /\ UNCHANGED <<splitVars, retryVars, findVars, mainVars, saveVars>>

\* The bookmarks are collected and none resolved (lines 139-144).
CollectNothing ==
    /\ bm_pc = "start"
    /\ bookmarks # <<>>
    /\ all_bookmarks_info' = _get_bookmarks(bookmarks, 0)
    /\ all_bookmarks_info' = <<>>
    /\ returned' = "None"
    /\ bm_pc' = "done"
    /\ UNCHANGED <<pages, bookmarks, sorted_all_bookmarks_info, i,
                   start_page, end_page, chapter_text, chapters>>
    /\ UNCHANGED <<splitVars, retryVars, findVars, mainVars, saveVars>>

\* The bookmarks are collected and sorted by page (lines 139-147).
CollectAndSort ==
    /\ bm_pc = "start"
    /\ bookmarks # <<>>
    /\ all_bookmarks_info' = _get_bookmarks(bookmarks, 0)
    /\ all_bookmarks_info' # <<>>
    /\ sorted_all_bookmarks_info' = SortedByPage(all_bookmarks_info')
    /\ i' = 0
    /\ bm_pc' = "loop"
    /\ UNCHANGED <<pages, bookmarks, start_page, end_page, chapter_text,
                   chapters, returned>>
    /\ UNCHANGED <<splitVars, retryVars, findVars, mainVars, saveVars>>

\* One iteration of `for i, (title, start_page, level) in enumerate(...)`
\* (lines 190-263).
ExtractChapter ==
    /\ bm_pc = "loop"
    /\ i < Len(sorted_all_bookmarks_info)
    /\ LET cur == sorted_all_bookmarks_info[i + 1]
           last == ~(i + 1 < Len(sorted_all_bookmarks_info))
           end == IF last THEN Len(pages)
                  ELSE sorted_all_bookmarks_info[i + 2].page
           next_title == IF last THEN <<>>
                         ELSE sorted_all_bookmarks_info[i + 2].title
           raw == RawChapterText(pages, cur.page, end)
           refined_text == RefinedText(raw, cur.title, next_title)
       IN /\ start_page' = cur.page
          /\ end_page' = end
          /\ chapter_text' = raw
          /\ chapters' = DictSet(chapters, cur.title,
                                 Chapter(cur.title, Strip(refined_text),
                                         cur.level))
    /\ i' = i + 1
    /\ UNCHANGED <<pages, bookmarks, all_bookmarks_info,
                   sorted_all_bookmarks_info, bm_pc, returned>>
    /\ UNCHANGED <<splitVars, retryVars, findVars, mainVars, saveVars>>

\* The loop is over: `return chapters` (lines 273-274).
ReturnChapters ==
    /\ bm_pc = "loop"
    /\ ~(i < Len(sorted_all_bookmarks_info))
    /\ returned' = "chapters"
    /\ bm_pc' = "done"
    /\ UNCHANGED <<pages, bookmarks, all_bookmarks_info,
                   sorted_all_bookmarks_info, i, start_page, end_page,
                   chapter_text, chapters>>
    /\ UNCHANGED <<splitVars, retryVars, findVars, mainVars, saveVars>>

BookmarksNext ==
    \/ FallbackFullText
    \/ FallbackNoText
    \/ CollectNothing
    \/ CollectAndSort
    \/ ExtractChapter
    \/ ReturnChapters

\* ------------------------------------------------------- the documents
PageTexts == {<<>>, <<"a">>, <<"b", " ">>}

\* reader.pages of a document of one to n pages.
Docs(n) == UNION {[1..k -> PageTexts] : k \in 1..n}

\* The page numbers get_destination_page_number may give for a document of
\* up to n pages: -1 for a destination that is no page of the document, and
\* numbers up to n, which the code takes for possible (line 202).
PageNumbers(n) == -1..n

\* A node nested in `level` lists.
RECURSIVE Nested(_, _)
Nested(node, level) ==
    IF level = 0 THEN node ELSE ListNode(<<Nested(node, level - 1)>>)

\* The bookmarks of the outlines of nested leaves, as <<title, level>>: two
\* of a title at two levels, two of a level with two titles.
TitleLevels == {<<<<"a">>, 0>>, <<<<"b">>, 0>>, <<<<"a">>, 1>>}

NestedLeaves ==
    {Nested(LeafNode(tl[1], "page", p), tl[2]) :
        tl \in TitleLevels, p \in PageNumbers(MaxPages)}
    \cup {LeafNode(<<"a">>, r, 0) : r \in {"none", "raise"}}

\* The outlines of up to MaxEntries leaves, each nested on its own.
ChapterOutlines == UNION {[1..k -> NestedLeaves] : k \in 0..MaxEntries}

\* The leaves of the outlines of any shape: two whose page resolves, one whose
\* page is None and one whose resolution raises.
CollectLeaves ==
    {LeafNode(<<"a">>, "page", 1), LeafNode(<<"b">>, "page", 0),
     LeafNode(<<"a">>, "none", 0), LeafNode(<<"b">>, "raise", 0)}

\* The outlines of exactly n nodes (leaves and lists), of any shape.
RECURSIVE Forests(_)
RECURSIVE TreesOf(_)
Forests(n) ==
    IF n = 0 THEN {<<>>}
    ELSE UNION {{<<first>> \o rest : first \in TreesOf(k),
                                     rest \in Forests(n - k)} : k \in 1..n}

TreesOf(n) ==
    (IF n = 1 THEN CollectLeaves ELSE {})
    \cup {ListNode(f) : f \in Forests(n - 1)}

CollectOutlines == UNION {Forests(n) : n \in 0..MaxNodes}

\* The outlines on which the refinement is checked: no bookmark, one that does
\* not resolve, or one or two bookmarks of page 0 with any short title.
RefineTitles == StrUpTo(MaxTitleLen)

RefineOutlines ==
    {<<>>, <<LeafNode(<<"a">>, "none", 0)>>}
    \cup {<<LeafNode(t, "page", 0)>> : t \in RefineTitles}
    \cup {<<LeafNode(t, "page", 0), LeafNode(u, "page", 0)>> :
            t \in RefineTitles, u \in RefineTitles}

BookmarksStart ==
    /\ all_bookmarks_info = <<>>
    /\ sorted_all_bookmarks_info = <<>>
    /\ i = 0
    /\ start_page = 0
    /\ end_page = 0
    /\ chapter_text = <<>>
    /\ chapters = <<>>
    /\ bm_pc = "start"
    /\ returned = "nothing"

\* =================================================================
\* _find_ignoring_whitespace, called on its own
\* =================================================================
FindIdle ==
    /\ find_haystack = <<>> /\ find_needle = <<>> /\ find_offset = 0
    /\ find_result = -1 /\ find_pc = "idle"
    /\ find_h_idx = 0 /\ find_n_idx = 0 /\ find_potential_start = -1

\* start_offset is 0 or `start_pos + len(title)`, which may pass the end of
\* the haystack when the title holds whitespace the haystack has not.
FindInit ==
    /\ find_haystack \in StrUpTo(MaxHaystackLen)
    /\ find_needle \in StrUpTo(MaxNeedleLen)
    /\ find_offset \in 0..(Len(find_haystack) + 1)
    /\ find_result = -1
    /\ find_pc = "start"
    /\ find_h_idx = 0 /\ find_n_idx = 0 /\ find_potential_start = -1

\* `if not needle: return start_offset`
FindEmptyNeedle ==
    /\ find_pc = "start"
    /\ ~Truthy(find_needle)
    /\ find_result' = _find_ignoring_whitespace(find_haystack, find_needle,
                                                find_offset)
    /\ find_pc' = "done"
    /\ UNCHANGED <<find_haystack, find_needle, find_offset, find_h_idx,
                   find_n_idx, find_potential_start>>
    /\ UNCHANGED <<splitVars, retryVars, bmVars, mainVars, saveVars>>

\* The scan for a needle that is not empty, up to its `return`.
FindScan ==
    /\ find_pc = "start"
    /\ Truthy(find_needle)
    /\ find_result' = _find_ignoring_whitespace(find_haystack, find_needle,
                                                find_offset)
    /\ find_pc' = "done"
    /\ UNCHANGED <<find_haystack, find_needle, find_offset, find_h_idx,
                   find_n_idx, find_potential_start>>
    /\ UNCHANGED <<splitVars, retryVars, bmVars, mainVars, saveVars>>

FindNext ==
    \/ FindEmptyNeedle
    \/ FindScan

\* ---- the scan of _find_ignoring_whitespace, one pass of its loop at a time

\* The mismatch branch without the `h_idx += 1` that ends the pass.
HIdxAfterMismatchStays(p_start, h) == IF p_start # -1 THEN p_start ELSE h

\* h_idx after a mismatch at h: `if potential_start != -1: h_idx =
\* potential_start`, then `h_idx += 1` at the end of the pass.
HIdxAfterMismatch(p_start, h) == (IF p_start # -1 THEN p_start ELSE h) + 1

\* `h_idx, n_idx = start_offset, 0; potential_start = -1`, for a needle that
\* is not empty.
FindBegin ==
    /\ find_pc = "start"
    /\ Truthy(find_needle)
    /\ find_h_idx' = find_offset
    /\ find_n_idx' = 0
    /\ find_potential_start' = -1
    /\ find_pc' = "scan"
    /\ UNCHANGED <<find_haystack, find_needle, find_offset, find_result>>
    /\ UNCHANGED <<splitVars, retryVars, bmVars, mainVars, saveVars>>

\* A pass of `while h_idx < h_len` that reaches the comparison and finds the
\* characters equal.  (start_offset, which the skip of the haystack's
\* whitespace also counts up, is not read again and is left out.)
FindPassMatch ==
    /\ find_pc = "scan"
    /\ find_h_idx < Len(find_haystack)
    /\ LET h == SkipSpace(find_haystack, find_h_idx)
           n == SkipSpace(find_needle, find_n_idx)
       IN /\ h # Len(find_haystack)
          /\ n # Len(find_needle)
          /\ find_haystack[h + 1] = find_needle[n + 1]
          /\ find_potential_start' =
                 IF n = 0 THEN h ELSE find_potential_start
          /\ find_n_idx' = n + 1
          /\ find_h_idx' = h + 1
    /\ UNCHANGED <<find_haystack, find_needle, find_offset, find_result,
                   find_pc>>
    /\ UNCHANGED <<splitVars, retryVars, bmVars, mainVars, saveVars>>

\* A pass that reaches the comparison and finds the characters different: the
\* scan goes back to the character after the start of the match.
FindPassMismatch ==
    /\ find_pc = "scan"
    /\ find_h_idx < Len(find_haystack)
    /\ LET h == SkipSpace(find_haystack, find_h_idx)
           n == SkipSpace(find_needle, find_n_idx)
       IN /\ h # Len(find_haystack)
          /\ n # Len(find_needle)
          /\ find_haystack[h + 1] # find_needle[n + 1]
          /\ find_h_idx' = HIdxAfterMismatch(find_potential_start, h)
          /\ find_potential_start' = -1
          /\ find_n_idx' = 0
    /\ UNCHANGED <<find_haystack, find_needle, find_offset, find_result,
                   find_pc>>
    /\ UNCHANGED <<splitVars, retryVars, bmVars, mainVars, saveVars>>

\* A pass that ends in `if n_idx == n_len: return potential_start`.
FindPassReturn ==
    /\ find_pc = "scan"
    /\ find_h_idx < Len(find_haystack)
    /\ LET h == SkipSpace(find_haystack, find_h_idx)
           n == SkipSpace(find_needle, find_n_idx)
       IN /\ h # Len(find_haystack)
          /\ n = Len(find_needle)
          /\ find_h_idx' = h
          /\ find_n_idx' = n
    /\ find_result' = find_potential_start
    /\ find_pc' = "done"
    /\ UNCHANGED <<find_haystack, find_needle, find_offset,
                   find_potential_start>>
    /\ UNCHANGED <<splitVars, retryVars, bmVars, mainVars, saveVars>>

\* The loop ends, by its test or by `if h_idx == h_len: break`, and the code
\* after it returns.
FindLoopEnd ==
    /\ find_pc = "scan"
    /\ LET h == IF find_h_idx < Len(find_haystack)
                THEN SkipSpace(find_haystack, find_h_idx)
                ELSE find_h_idx
       IN /\ ~(h < Len(find_haystack))
          /\ find_h_idx' = h
    /\ find_n_idx' = SkipSpace(find_needle, find_n_idx)
    /\ find_result' =
           FindTail(find_needle, find_n_idx, find_potential_start)
    /\ find_pc' = "done"
    /\ UNCHANGED <<find_haystack, find_needle, find_offset,
                   find_potential_start>>
    /\ UNCHANGED <<splitVars, retryVars, bmVars, mainVars, saveVars>>

FindStepNext ==
    \/ FindEmptyNeedle
    \/ FindBegin
    \/ FindPassMatch
    \/ FindPassMismatch
    \/ FindPassReturn
    \/ FindLoopEnd
\* =================================================================
\* main: the translation of the chapters (src/main.py) and
\* GoogleAdaptor.translate_text_chunk as main sees it
\* =================================================================

\* `max_chunk_size = 10000 # default`
DefaultMaxChunkSize == 10000

\* A value of config.json: an int or something else (absent, a string, ...).
ConfigInt(v) == [int |-> TRUE, value |-> v]

ConfigNotInt == [int |-> FALSE, value |-> 0]

\* `if not isinstance(max_chunk_size, int) or max_chunk_size <= 0:
\*      max_chunk_size = 10000`
Sanitized(c) ==
    IF ~c.int \/ c.value <= 0 THEN DefaultMaxChunkSize ELSE c.value

\* split_text as a function: the chunks of the loop, from start on.
RECURSIVE SplitFrom(_, _, _)
SplitFrom(t, s, n) ==
    IF ~(s < Len(t)) THEN <<>>
    ELSE <<PySlice(t, s, ChunkEnd(s, n, t))>> \o SplitFrom(t, ChunkEnd(s, n, t), n)

\* split_text replaced by the text as its only chunk.
SplitTextWhole(t, n) == <<t>>

split_text(t, n) ==
    IF ~Truthy(t) \/ n <= 0 THEN RejectedResult(t) ELSE SplitFrom(t, 0, n)

\* No text is taken as blank.
IsBlankNever(t) == FALSE

\* `if not text_chunk or not text_chunk.strip(): return ""`
IsBlank(t) == Strip(t) = <<>>

\* The text translate_text_chunk returns for a response with a text: the text
\* of the response, stripped.  The response of the model tells which text was
\* translated ("T" stands for the translation, the text for its content).
Translation(t) == Strip(<<"T">> \o t)

\* The parts joined with the last part first.
RECURSIVE JoinLinesReversed(_)
JoinLinesReversed(parts) ==
    IF parts = <<>> THEN <<>>
    ELSE IF Len(parts) = 1 THEN parts[1]
         ELSE JoinLinesReversed(Tail(parts)) \o <<"\n">> \o parts[1]

\* "\n".join(parts)
RECURSIVE JoinLines(_)
JoinLines(parts) ==
    IF parts = <<>> THEN <<>>
    ELSE IF Len(parts) = 1 THEN parts[1]
         ELSE parts[1] \o <<"\n">> \o JoinLines(Tail(parts))

\* f"--- 章 '{current_chapter_title}' 翻訳失敗: {e} ---": the three pieces of
\* the literal are one element each, e is the element that names the error.
\* First the placeholder without the title and the placeholder after the
\* translations of the chunks before the failure, then the one of the code.
PlaceholderWithoutTitle(title, e) ==
    <<"--- chapter '", "' failed: ", e, " ---">>

PlaceholderAfterChunks(title, e) ==
    JoinLines(translated_sub_chunks)
    \o <<"--- chapter '">> \o title \o <<"' failed: ", e, " ---">>

Placeholder(title, e) ==
    <<"--- chapter '">> \o title \o <<"' failed: ", e, " ---">>

\* A call of translate_text_chunk by main (with the sleep that follows it),
\* as the log of the model keeps it: the chapter (0-based), the chunk (0-based;
\* 0 for a chapter passed whole), the text passed, whether the call and the
\* sleep returned, and the text returned or the error raised.
TranslateCall(c, k, t, ok, r) ==
    [chapter |-> c, chunk |-> k, text |-> t, ok |-> ok, result |-> r]

MainIdle ==
    /\ cfg_max_chunk_size = ConfigNotInt /\ sleep_raises = FALSE
    /\ chapters_dict = <<>> /\ split_failed = FALSE
    /\ main_max_chunk_size = 0
    /\ translated_chapters = <<>> /\ original_texts_for_output = <<>>
    /\ main_i = 0 /\ sub_chunks = <<>> /\ translated_sub_chunks = <<>>
    /\ main_j = 0 /\ translate_calls = <<>> /\ main_pc = "idle"

\* The texts of the chapters: up to n characters, letters and whitespace,
\* stripped as split_text_by_bookmarks leaves them.
ChapterTexts(n) ==
    {x \in UNION {[1..k -> {"a", " "}] : k \in 0..n} : Strip(x) = x}

\* The items of the OrderedDict split_text_by_bookmarks returns: one chapter,
\* or two with distinct titles (the titles are the keys).
MainChapters ==
    {<<Chapter(<<"a">>, x, 0)>> : x \in ChapterTexts(MaxChapterLen)}
    \cup {<<Chapter(t[1], x, 0), Chapter(t[2], y, 1)>> :
            t \in {<<<<"a">>, <<"b">>>>, <<<<"b">>, <<"a">>>>},
            x \in ChapterTexts(MaxChapterLen),
            y \in ChapterTexts(MaxChapterLen)}

MainInit ==
    /\ cfg_max_chunk_size \in
           {ConfigNotInt} \cup {ConfigInt(v) : v \in -1..MaxChunkSize}
    /\ sleep_raises \in BOOLEAN
    /\ split_failed \in BOOLEAN
    /\ chapters_dict \in IF split_failed THEN {<<>>} ELSE MainChapters
    /\ main_max_chunk_size = 0
    /\ translated_chapters = <<>>
    /\ original_texts_for_output = <<>>
    /\ main_i = 0
    /\ sub_chunks = <<>>
    /\ translated_sub_chunks = <<>>
    /\ main_j = 0
    /\ translate_calls = <<>>
    /\ main_pc = "start"

\* What translate_text_chunk may return for a text: "" for a blank text
\* (without a call of the API), else the translation or "" (a response
\* without text).
TranslateResults(t) ==
    IF IsBlank(t) THEN {<<>>} ELSE {Translation(t), <<>>}

\* Whether translate_text_chunk may raise for a text (the `raise` of its
\* except clause): not for a blank text, which returns before the try.
TranslateMayRaise(t) == ~IsBlank(t)

\* The errors that end the translation of a text handed to
\* translate_text_chunk and followed by time.sleep(sleep_time): "E" raised by
\* the translation, "S" raised by the sleep after a translation that returned.
CallErrors(t) ==
    (IF TranslateMayRaise(t) THEN {"E"} ELSE {})
    \cup (IF sleep_raises THEN {"S"} ELSE {})

\* The chapter the loop is at.
CurrentChapter == chapters_dict[main_i + 1]

\* Lines 289-293.
MainConfig ==
    /\ main_pc = "start"
    /\ main_max_chunk_size' = Sanitized(cfg_max_chunk_size)
    /\ main_pc' = "split"
    /\ UNCHANGED <<cfg_max_chunk_size, sleep_raises, chapters_dict,
                   split_failed, translated_chapters,
                   original_texts_for_output, main_i, sub_chunks,
                   translated_sub_chunks, main_j, translate_calls>>
    /\ UNCHANGED <<splitVars, retryVars, bmVars, findVars, saveVars>>

\* `if not chapters_dict: sys.exit()` (lines 353-356).
MainNoChapters ==
    /\ main_pc = "split"
    /\ (split_failed \/ chapters_dict = <<>>)
    /\ main_pc' = "exit"
    /\ UNCHANGED <<cfg_max_chunk_size, sleep_raises, chapters_dict,
                   split_failed, main_max_chunk_size, translated_chapters,
                   original_texts_for_output, main_i, sub_chunks,
                   translated_sub_chunks, main_j, translate_calls>>
    /\ UNCHANGED <<splitVars, retryVars, bmVars, findVars, saveVars>>

\* Lines 358-370: the lists are set up.
MainBegin ==
    /\ main_pc = "split"
    /\ ~(split_failed \/ chapters_dict = <<>>)
    /\ translated_chapters' = <<>>
    /\ original_texts_for_output' = <<>>
    /\ main_i' = 0
    /\ main_pc' = "chapter"
    /\ UNCHANGED <<cfg_max_chunk_size, sleep_raises, chapters_dict,
                   split_failed, main_max_chunk_size, sub_chunks,
                   translated_sub_chunks, main_j, translate_calls>>
    /\ UNCHANGED <<splitVars, retryVars, bmVars, findVars, saveVars>>

\* A chapter that is not longer than max_chunk_size is translated whole
\* (lines 381-398, 416-424).
TranslateWhole ==
    /\ main_pc = "chapter"
    /\ main_i < Len(chapters_dict)
    /\ ~(Len(CurrentChapter.text) > main_max_chunk_size)
    /\ ~sleep_raises
    /\ \E r \in TranslateResults(CurrentChapter.text) :
        /\ translated_chapters' = Append(translated_chapters, r)
        /\ translate_calls' =
               Append(translate_calls,
                      TranslateCall(main_i, 0, CurrentChapter.text, TRUE, r))
    /\ original_texts_for_output' =
           Append(original_texts_for_output, CurrentChapter.text)
    /\ main_i' = main_i + 1
    /\ UNCHANGED <<cfg_max_chunk_size, sleep_raises, chapters_dict,
                   split_failed, main_max_chunk_size, sub_chunks,
                   translated_sub_chunks, main_j, main_pc>>
    /\ UNCHANGED <<splitVars, retryVars, bmVars, findVars, saveVars>>

\* The same, with an exception from the translation or from the sleep
\* (lines 381-398, 416-422, 426-428).
TranslateWholeFails ==
    /\ main_pc = "chapter"
    /\ main_i < Len(chapters_dict)
    /\ ~(Len(CurrentChapter.text) > main_max_chunk_size)
    /\ \E e \in CallErrors(CurrentChapter.text) :
        /\ translated_chapters' =
               Append(translated_chapters,
                      Placeholder(CurrentChapter.title, e))
        /\ translate_calls' =
               Append(translate_calls,
                      TranslateCall(main_i, 0, CurrentChapter.text, FALSE,
                                    <<e>>))
    /\ original_texts_for_output' =
           Append(original_texts_for_output, CurrentChapter.text)
    /\ main_i' = main_i + 1
    /\ UNCHANGED <<cfg_max_chunk_size, sleep_raises, chapters_dict,
                   split_failed, main_max_chunk_size, sub_chunks,
                   translated_sub_chunks, main_j, main_pc>>
    /\ UNCHANGED <<splitVars, retryVars, bmVars, findVars, saveVars>>

\* A chapter longer than max_chunk_size is split (lines 381-404).
SplitChapter ==
    /\ main_pc = "chapter"
    /\ main_i < Len(chapters_dict)
    /\ Len(CurrentChapter.text) > main_max_chunk_size
    /\ original_texts_for_output' =
           Append(original_texts_for_output, CurrentChapter.text)
    /\ sub_chunks' = split_text(CurrentChapter.text, main_max_chunk_size)
    /\ translated_sub_chunks' = <<>>
    /\ main_j' = 0
    /\ main_pc' = "chunks"
    /\ UNCHANGED <<cfg_max_chunk_size, sleep_raises, chapters_dict,
                   split_failed, main_max_chunk_size, translated_chapters,
                   main_i, translate_calls>>
    /\ UNCHANGED <<splitVars, retryVars, bmVars, findVars, saveVars>>

\* One iteration of the chunk loop (lines 407-412).
TranslateChunk ==
    /\ main_pc = "chunks"
    /\ main_j < Len(sub_chunks)
    /\ ~sleep_raises
    /\ \E r \in TranslateResults(sub_chunks[main_j + 1]) :
        /\ translated_sub_chunks' =
               Append(translated_sub_chunks, IF Truthy(r) THEN r ELSE <<>>)
        /\ translate_calls' =
               Append(translate_calls,
                      TranslateCall(main_i, main_j, sub_chunks[main_j + 1],
                                    TRUE, r))
    /\ main_j' = main_j + 1
    /\ UNCHANGED <<cfg_max_chunk_size, sleep_raises, chapters_dict,
                   split_failed, main_max_chunk_size, translated_chapters,
                   original_texts_for_output, main_i, sub_chunks, main_pc>>
    /\ UNCHANGED <<splitVars, retryVars, bmVars, findVars, saveVars>>

\* An iteration of the chunk loop that raises: the chapter gets the
\* placeholder and the loop of the chapters goes on (lines 407-412, 426-428).
TranslateChunkFails ==
    /\ main_pc = "chunks"
    /\ main_j < Len(sub_chunks)
    /\ \E e \in CallErrors(sub_chunks[main_j + 1]) :
        /\ translated_chapters' =
               Append(translated_chapters,
                      Placeholder(CurrentChapter.title, e))
        /\ translate_calls' =
               Append(translate_calls,
                      TranslateCall(main_i, main_j, sub_chunks[main_j + 1],
                                    FALSE, <<e>>))
    /\ main_i' = main_i + 1
    /\ main_pc' = "chapter"
    /\ UNCHANGED <<cfg_max_chunk_size, sleep_raises, chapters_dict,
                   split_failed, main_max_chunk_size,
                   original_texts_for_output, sub_chunks,
                   translated_sub_chunks, main_j>>
    /\ UNCHANGED <<splitVars, retryVars, bmVars, findVars, saveVars>>

\* The chunk loop is over: the translations are joined (lines 413-415, 424).
JoinChunks ==
    /\ main_pc = "chunks"
    /\ ~(main_j < Len(sub_chunks))
    /\ translated_chapters' =
           Append(translated_chapters, JoinLines(translated_sub_chunks))
    /\ main_i' = main_i + 1
    /\ main_pc' = "chapter"
    /\ UNCHANGED <<cfg_max_chunk_size, sleep_raises, chapters_dict,
                   split_failed, main_max_chunk_size,
                   original_texts_for_output, sub_chunks,
                   translated_sub_chunks, main_j, translate_calls>>
    /\ UNCHANGED <<splitVars, retryVars, bmVars, findVars, saveVars>>

\* The loop of the chapters is over (line 430 on).
MainLoopEnd ==
    /\ main_pc = "chapter"
    /\ ~(main_i < Len(chapters_dict))
    /\ main_pc' = "done"
    /\ UNCHANGED <<cfg_max_chunk_size, sleep_raises, chapters_dict,
                   split_failed, main_max_chunk_size, translated_chapters,
                   original_texts_for_output, main_i, sub_chunks,
                   translated_sub_chunks, main_j, translate_calls>>
    /\ UNCHANGED <<splitVars, retryVars, bmVars, findVars, saveVars>>

MainNext ==
    \/ MainConfig
    \/ MainNoChapters
    \/ MainBegin
    \/ TranslateWhole
    \/ TranslateWholeFails
    \/ SplitChapter
    \/ TranslateChunk
    \/ TranslateChunkFails
    \/ JoinChunks
    \/ MainLoopEnd

\* =================================================================
\* GoogleAdaptor: the calls of external services and the wrapper
\* =================================================================

\* The calls of an external service each function makes, in their order:
\* translate_text_chunk (model.generate_content), save_to_google_doc
\* (files().create(...).execute(), documents().batchUpdate(...).execute()) and
\* save_to_google_sheet (gspread_client.create, worksheet.append_row,
\* worksheet.append_rows).
Sites(f) ==
    CASE f = "translate_text_chunk" -> <<"generate_content">>
      [] f = "save_to_google_doc" -> <<"files.create", "documents.batchUpdate">>
      [] f = "save_to_google_sheet" -> <<"create", "append_row", "append_rows">>

\* Only the first call of each function in a decorated function.
WrappedFirstCallOnly(site) ==
    site \in {"generate_content", "files.create", "create"}

\* The call is made in a function decorated with @retry_api_call: all but
\* `worksheet.append_row(header, ...)`, whose decorator is commented out.
Wrapped(site) == site # "append_row"

\* The function reads the value the call returned (response.text,
\* new_doc['id'], spreadsheet.id), which fails on None.
NeedsResult(site) == site \in {"generate_content", "files.create", "create"}

\* A call as the log keeps it: whether it went through the wrapper, how many
\* times the service was called, and what the function got in the end.
SiteCall(site, wrapper, attempts, result) ==
    [site |-> site, wrapper |-> wrapper, attempts |-> attempts,
     result |-> result]

CurrentSite == Sites(save_function)[save_site]

SaveIdle ==
    /\ save_function = "none" /\ save_site = 0 /\ save_log = <<>>
    /\ save_pc = "idle"

SaveInit ==
    /\ save_function \in {"translate_text_chunk", "save_to_google_doc",
                          "save_to_google_sheet"}
    /\ save_site = 1
    /\ save_log = <<>>
    /\ save_pc = "site"
    /\ max_retries \in -1..1
    /\ initial_delay \in {1, 2}
    /\ retries = 0
    /\ current_delay = 1
    /\ calls = <<>>
    /\ sleeps = <<>>
    /\ w_pc = "idle"
    /\ w_result = ReturnsNone

\* The function goes on after a call: to its next call, to its end, or, when
\* the call failed (or gave None where a value is read), to its except clause.
AfterCall(ok) ==
    /\ save_pc' = IF ~ok THEN "failed"
                  ELSE IF save_site = Len(Sites(save_function)) THEN "done"
                  ELSE "site"
    /\ save_site' = IF ok /\ save_site < Len(Sites(save_function))
                    THEN save_site + 1 ELSE save_site

\* The decorated inner function is called: its wrapper starts.
SaveCallWrapped ==
    /\ save_pc = "site"
    /\ Wrapped(CurrentSite)
    /\ w_pc' = "start"
    /\ calls' = <<>>
    /\ sleeps' = <<>>
    /\ save_pc' = "wait"
    /\ UNCHANGED <<max_retries, initial_delay, retries, current_delay,
                   w_result>>
    /\ UNCHANGED <<save_function, save_site, save_log>>
    /\ UNCHANGED <<splitVars, bmVars, findVars, mainVars>>

\* The wrapper returned or raised.
SaveWrappedDone ==
    /\ save_pc = "wait"
    /\ w_pc \in {"returned", "raised"}
    /\ save_log' = Append(save_log,
                          SiteCall(CurrentSite, TRUE, Len(calls), w_result))
    /\ AfterCall(/\ w_pc = "returned"
                 /\ ~(NeedsResult(CurrentSite) /\ w_result = ReturnsNone))
    /\ UNCHANGED save_function
    /\ UNCHANGED <<splitVars, retryVars, bmVars, findVars, mainVars>>

\* The service is called directly: it returns, or its error goes to the
\* except clause of the function.
SaveCallDirect ==
    /\ save_pc = "site"
    /\ ~Wrapped(CurrentSite)
    /\ \E e \in Outcomes(1) :
        /\ save_log' = Append(save_log, SiteCall(CurrentSite, FALSE, 1, e))
        /\ AfterCall(e.kind = "return")
    /\ UNCHANGED save_function
    /\ UNCHANGED <<splitVars, retryVars, bmVars, findVars, mainVars>>

SaveNext ==
    \/ SaveCallWrapped
    \/ SaveWrappedDone
    \/ SaveCallDirect
    \/ WrapperEnter
    \/ WrapperLoopExit
    \/ WrapperReturn
    \/ WrapperRetry
    \/ WrapperExhausted
    \/ WrapperNotRetryable
    \/ WrapperUnexpected

\* =================================================================
\* Specifications
\* =================================================================
InitSplit ==
    /\ SplitInit
    /\ RetryIdle /\ BookmarksIdle /\ FindIdle /\ MainIdle /\ SaveIdle

SpecSplit == InitSplit /\ [][SplitNext]_vars

InitRetry ==
    /\ RetryInit
    /\ SplitIdle /\ BookmarksIdle /\ FindIdle /\ MainIdle /\ SaveIdle

SpecRetry == InitRetry /\ [][RetryNext]_vars

\* The decorated function called any number of times, with initial_delay = 1.
InitRetryAgain ==
    /\ RetryInit
    /\ initial_delay = 1
    /\ SplitIdle /\ BookmarksIdle /\ FindIdle /\ MainIdle /\ SaveIdle

SpecRetryAgain == InitRetryAgain /\ [][RetryAgainNext]_vars

\* Documents whose outline is a list of leaves, each nested on its own.
InitBookmarks ==
    /\ pages \in Docs(MaxPages)
    /\ bookmarks \in ChapterOutlines
    /\ BookmarksStart
    /\ SplitIdle /\ RetryIdle /\ FindIdle /\ MainIdle /\ SaveIdle

SpecBookmarks == InitBookmarks /\ [][BookmarksNext]_vars

\* Documents of one page without text, or of two pages with text, whose
\* outline has any shape.
InitCollect ==
    /\ pages \in {<<<<>>>>, <<<<"a">>, <<"b">>>>}
    /\ bookmarks \in CollectOutlines
    /\ BookmarksStart
    /\ SplitIdle /\ RetryIdle /\ FindIdle /\ MainIdle /\ SaveIdle

SpecCollect == InitCollect /\ [][BookmarksNext]_vars

\* Every haystack, needle and start_offset within the bounds.
InitFind ==
    /\ FindInit
    /\ SplitIdle /\ RetryIdle /\ BookmarksIdle /\ MainIdle /\ SaveIdle

SpecFind == InitFind /\ [][FindNext]_vars

\* The scan pass by pass, from the start of the haystack or from its second
\* character; a function that is running takes its next step.
InitFindSteps ==
    /\ FindInit
    /\ find_offset <= 1
    /\ SplitIdle /\ RetryIdle /\ BookmarksIdle /\ MainIdle /\ SaveIdle

SpecFindSteps ==
    InitFindSteps /\ [][FindStepNext]_vars /\ WF_vars(FindStepNext)

\* Documents of one page, which every bookmark points to, with any short text
\* on the page and any short titles.
InitRefine ==
    /\ pages \in {<<t>> : t \in StrUpTo(MaxPageLen)}
    /\ bookmarks \in RefineOutlines
    /\ BookmarksStart
    /\ SplitIdle /\ RetryIdle /\ FindIdle /\ MainIdle /\ SaveIdle

SpecRefine == InitRefine /\ [][BookmarksNext]_vars

\* main with every value of max_chunk_size in config.json and one or two
\* chapters from the splitter, or none.
InitMain ==
    /\ MainInit
    /\ SplitIdle /\ RetryIdle /\ BookmarksIdle /\ FindIdle /\ SaveIdle

SpecMain == InitMain /\ [][MainNext]_vars

\* One function of GoogleAdaptor that calls a service, with max_retries from
\* -1 to 1, every outcome at every call and the wrapper idle at first.
InitSave ==
    /\ SaveInit
    /\ SplitIdle /\ BookmarksIdle /\ FindIdle /\ MainIdle

SpecSave == InitSave /\ [][SaveNext]_vars

\* =================================================================
\* Properties
\* =================================================================

\* C1: for a non-empty text and max_chunk_size > 0, the pieces split_text
\* returns, concatenated in order, are the text itself, and no piece is longer
\* than max_chunk_size.  (SpecSplit)
C1_SplitReconstructsText ==
    (st_pc = "done" /\ text # <<>> /\ max_chunk_size > 0) =>
        /\ Concat(st_result) = text
        /\ \A k \in 1..Len(st_result) : Len(st_result[k]) <= max_chunk_size

\* A text split into several pieces, the last one shorter than the others.
C1_Witness ==
    /\ st_pc = "done"
    /\ Len(st_result) >= 2
    /\ Len(st_result[1]) = max_chunk_size
    /\ Len(st_result[Len(st_result)]) < max_chunk_size

\* C2: split_text returns the empty list whenever the text is empty or
\* max_chunk_size <= 0, and such an input never enters the splitting loop.
\* (SpecSplit)
C2_RejectedInputGivesNoChunks ==
    (text = <<>> \/ max_chunk_size <= 0) =>
        /\ st_pc \in {"start", "done"}
        /\ st_pc = "done" => st_result = <<>>

\* An empty text with a max_chunk_size that is not positive, both at once.
C2_Witness ==
    /\ st_pc = "done"
    /\ text = <<>>
    /\ max_chunk_size <= 0

\* The failures the claims call retryable: an HttpError or APIError whose
\* status is one of 500, 502, 503, 504.
ClassifiedRetryable(e) ==
    /\ e.kind \in {"HttpError", "APIError"}
    /\ e.status \in {500, 502, 503, 504}

EveryAttemptRetryable == \A k \in 1..Len(calls) : ClassifiedRetryable(calls[k])

\* C3: with max_retries >= 0 and a retryable failure on every attempt, the
\* wrapper never makes more than max_retries + 1 attempts, and it ends only by
\* raising the failure of attempt number max_retries + 1.  (SpecRetry)
C3_ExhaustedAfterMaxRetriesPlusOne ==
    (max_retries >= 0 /\ EveryAttemptRetryable) =>
        /\ Len(calls) <= max_retries + 1
        /\ w_pc = "loop" => Len(calls) = retries
        /\ w_pc \in {"returned", "raised"} =>
            /\ w_pc = "raised"
            /\ Len(calls) = max_retries + 1
            /\ w_result = calls[Len(calls)]

\* max_retries = 2 and three retryable failures: the third one is raised.
C3_Witness ==
    /\ max_retries = 2
    /\ EveryAttemptRetryable
    /\ w_pc = "raised"
    /\ Len(calls) = 3
    /\ Len(sleeps) = 2

\* C4: an attempt that fails with a failure that is not classified retryable
\* ends the wrapper at once by raising that failure: the retry counter and the
\* delay keep their values, no sleep happens, and the operation is not invoked
\* again.  (SpecRetry)
C4_NotRetryablePropagatesAtOnce ==
    [][/\ (/\ Len(calls') = Len(calls) + 1
           /\ calls'[Len(calls')].kind # "return"
           /\ ~ClassifiedRetryable(calls'[Len(calls')]))
          => /\ w_pc' = "raised"
             /\ w_result' = calls'[Len(calls')]
             /\ retries' = retries
             /\ current_delay' = current_delay
             /\ sleeps' = sleeps
       /\ w_pc = "raised" => (calls' = calls /\ w_pc' = "raised")]_vars

\* A failure that is not retryable, at an attempt that follows a retry.
C4_Witness ==
    /\ w_pc = "raised"
    /\ retries = 1
    /\ Len(calls) = 2
    /\ ~ClassifiedRetryable(calls[2])
    /\ Len(sleeps) = 1

\* ------------------------------------------------- the bookmark splitter

\* The chapter loop has run for the k-th entry of the sorted list.
Extracted(k) ==
    /\ bm_pc \in {"loop", "done"}
    /\ sorted_all_bookmarks_info # <<>>
    /\ k \in 1..i

\* The start page of the entry after the k-th, or the total page count.
NextStartOrTotal(k) ==
    IF k < Len(sorted_all_bookmarks_info)
    THEN sorted_all_bookmarks_info[k + 1].page
    ELSE Len(pages)

ValidStart(k) ==
    /\ 0 <= sorted_all_bookmarks_info[k].page
    /\ sorted_all_bookmarks_info[k].page < Len(pages)

\* The texts of the pages lo .. hi-1 (0-based) that exist, in order.
PageRangeText(lo, hi) ==
    LET top == Min(hi, Len(pages))
    IN IF top <= lo THEN <<>>
       ELSE Concat([k \in 1..(top - lo) |-> pages[lo + k]])

\* C5 as stated: the raw text of a chapter with a valid start page is the text
\* of the pages from its start page up to, and without, the start page of the
\* next entry (the total page count for the last entry).  (SpecBookmarks)
C5_RawTextStopsBeforeNextStart ==
    (Extracted(i) /\ ValidStart(i)) =>
        chapter_text =
            PageRangeText(sorted_all_bookmarks_info[i].page, NextStartOrTotal(i))

\* C5 as amended: the raw text of a chapter with a valid start page is the
\* text of the pages from its start page up to and including the start page of
\* the next entry, as far as the document has them (up to its last page for the
\* last entry); pages without text add nothing.  (SpecBookmarks)
C5_RawTextIncludesNextStart ==
    (Extracted(i) /\ ValidStart(i)) =>
        chapter_text =
            PageRangeText(sorted_all_bookmarks_info[i].page,
                          NextStartOrTotal(i) + 1)

\* The first of two chapters, starting at pages 0 and 1 that both have text.
C5_Witness ==
    /\ Extracted(i)
    /\ i = 1
    /\ Len(sorted_all_bookmarks_info) = 2
    /\ sorted_all_bookmarks_info[1].page = 0
    /\ sorted_all_bookmarks_info[2].page = 1
    /\ Len(pages) = 2
    /\ pages[1] # <<>>
    /\ pages[2] # <<>>
    /\ chapter_text = pages[1] \o pages[2]

\* s is a with its entries put in ascending order of page, entries of the
\* same page keeping the order they have in a.
IsStableSortByPage(s, a) ==
    /\ Len(s) = Len(a)
    /\ \A j, k \in 1..Len(s) : j < k => s[j].page <= s[k].page
    /\ \E f \in [1..Len(s) -> 1..Len(a)] :
        /\ \A j, k \in 1..Len(s) : j # k => f[j] # f[k]
        /\ \A j \in 1..Len(s) : s[j] = a[f[j]]
        /\ \A j, k \in 1..Len(s) :
            (j < k /\ s[j].page = s[k].page) => f[j] < f[k]

\* The sorted list is the stable sort of the collected one, and the loop takes
\* start_page and end_page of an entry from it.
SortedAndRanged ==
    /\ bm_pc \in {"loop", "done"} /\ sorted_all_bookmarks_info # <<>> =>
        IsStableSortByPage(sorted_all_bookmarks_info, all_bookmarks_info)
    /\ Extracted(i) =>
        /\ start_page = sorted_all_bookmarks_info[i].page
        /\ end_page = NextStartOrTotal(i)

ChapterOfEntry(k) ==
    LET cur == sorted_all_bookmarks_info[k]
        next_title == IF k < Len(sorted_all_bookmarks_info)
                      THEN sorted_all_bookmarks_info[k + 1].title
                      ELSE <<>>
        raw == IF ValidStart(k)
               THEN PageRangeText(cur.page, NextStartOrTotal(k) + 1)
               ELSE <<>>
    IN Chapter(cur.title, Strip(RefinedText(raw, cur.title, next_title)),
               cur.level)

\* C7: split_text_by_bookmarks returns one chapter for each entry of the
\* sorted list, in that order, the k-th chapter with the title, the level and
\* the text of the k-th entry, also when entries share a title.
\* (SpecBookmarks)
C7_OneChapterPerEntry ==
    (bm_pc = "done" /\ returned = "chapters" /\ bookmarks # <<>>) =>
        /\ Len(chapters) = Len(sorted_all_bookmarks_info)
        /\ \A k \in 1..Len(chapters) : chapters[k] = ChapterOfEntry(k)

\* Two entries with the same title on two pages, both through the chapter loop.
C7_Witness ==
    /\ bm_pc = "done"
    /\ returned = "chapters"
    /\ Len(sorted_all_bookmarks_info) = 2
    /\ sorted_all_bookmarks_info[1].title = sorted_all_bookmarks_info[2].title
    /\ sorted_all_bookmarks_info[1].page = 0
    /\ sorted_all_bookmarks_info[2].page = 1
    /\ Len(pages) = 2

\* The paths (indexes from the top list down) of the leaves of an outline.
RECURSIVE LeafPaths(_, _)
LeafPaths(items, prefix) ==
    UNION {IF items[k].leaf THEN {Append(prefix, k)}
           ELSE LeafPaths(items[k].items, Append(prefix, k)) :
           k \in 1..Len(items)}

RECURSIVE NodeAt(_, _)
NodeAt(items, path) ==
    IF Len(path) = 1 THEN items[path[1]]
    ELSE NodeAt(items[path[1]].items, Tail(path))

\* p comes before q in a depth-first, left-to-right walk.
Before(p, q) ==
    \E j \in 1..Min(Len(p), Len(q)) :
        /\ p[j] < q[j]
        /\ \A m \in 1..(j - 1) : p[m] = q[m]

ResolvedLeafPaths ==
    {p \in LeafPaths(bookmarks, <<>>) : NodeAt(bookmarks, p).res = "page"}

\* C8: the collected list holds exactly the leaves of the outline whose page
\* resolves, in depth-first order, each with its title, its page and, as its
\* level, the number of lists around it; the leaves whose page is None or
\* whose resolution raises are left out and change nothing else.
\* (SpecCollect)
C8_CollectsResolvedLeavesDepthFirst ==
    (bm_pc # "start" /\ bookmarks # <<>>) =>
        /\ Len(all_bookmarks_info) = Cardinality(ResolvedLeafPaths)
        /\ \A p \in ResolvedLeafPaths :
            LET rank == 1 + Cardinality({q \in ResolvedLeafPaths : Before(q, p)})
                leaf == NodeAt(bookmarks, p)
            IN all_bookmarks_info[rank] =
                   BookmarkInfo(leaf.title, leaf.page, Len(p) - 1)

\* A leaf that does not resolve, followed by a leaf two lists deep that does.
C8_Witness ==
    /\ bm_pc # "start"
    /\ \E p, q \in LeafPaths(bookmarks, <<>>) :
        /\ Before(p, q)
        /\ NodeAt(bookmarks, p).res # "page"
        /\ NodeAt(bookmarks, q).res = "page"
        /\ Len(q) = 3
    /\ \E k \in 1..Len(all_bookmarks_info) : all_bookmarks_info[k].level = 2

C10_InvalidStartGivesEmptyChapter ==
    (bm_pc = "done" /\ returned = "chapters" /\ bookmarks # <<>>) =>
        \A k \in 1..Len(sorted_all_bookmarks_info) :
            ~ValidStart(k) =>
                \E j \in 1..Len(chapters) :
                    chapters[j] = Chapter(sorted_all_bookmarks_info[k].title,
                                          <<>>,
                                          sorted_all_bookmarks_info[k].level)

\* An entry at page -1 and an entry of another title at page 0: the first one
\* has a chapter without text, the second one its page's text.
C10_Witness ==
    /\ bm_pc = "done"
    /\ returned = "chapters"
    /\ Len(sorted_all_bookmarks_info) = 2
    /\ sorted_all_bookmarks_info[1].page = -1
    /\ sorted_all_bookmarks_info[2].page = 0
    /\ Len(chapters) = 2
    /\ chapters[1].text = <<>>
    /\ chapters[2].text # <<>>

\* ------------------------------------------- the whitespace-blind search

\* s with its whitespace removed.
NoSpace(s) == SelectSeq(s, LAMBDA c : ~IsSpace(c))

IsPrefix(a, b) == Len(a) <= Len(b) /\ SubSeq(b, 1, Len(a)) = a

\* The 0-based positions p >= off of a character of h that is not whitespace
\* and from which h, whitespace removed, begins with n, whitespace removed.
MatchPositions(h, n, off) ==
    {p \in off..(Len(h) - 1) :
        /\ ~IsSpace(h[p + 1])
        /\ IsPrefix(NoSpace(n), NoSpace(SubSeq(h, p + 1, Len(h))))}

FirstMatch(h, n, off) ==
    LET ps == MatchPositions(h, n, off)
    IN IF ps = {} THEN -1 ELSE CHOOSE p \in ps : \A q \in ps : p <= q

\* C11: for a needle with a character that is not whitespace, the search
\* returns the first position at or after start_offset where the needle
\* matches with whitespace ignored, and -1 exactly when there is none.
\* (SpecFind)
C11_FindsFirstMatch ==
    (find_pc = "done" /\ NoSpace(find_needle) # <<>>) =>
        find_result = FirstMatch(find_haystack, find_needle, find_offset)

\* A needle with whitespace inside, found after a match that was given up.
C11_Witness ==
    /\ find_pc = "done"
    /\ find_haystack = <<"a", "a", " ", "b">>
    /\ find_needle = <<"a", " ", "b">>
    /\ find_offset = 0
    /\ find_result = 1

\* C12: the search for the empty needle returns start_offset, whatever the
\* haystack and the offset.  (SpecFind)
C12_EmptyNeedleReturnsOffset ==
    (find_pc = "done" /\ find_needle = <<>>) => find_result = find_offset

\* The empty needle, sought from past the end of a haystack of whitespace.
C12_Witness ==
    /\ find_pc = "done"
    /\ find_needle = <<>>
    /\ find_haystack = <<" ", " ">>
    /\ find_offset = 3
    /\ find_result = 3

\* C18: a needle that differs from the needle sought only in whitespace gives
\* the same result (both with a character that is not whitespace).
\* (SpecFind)
C18_NeedleWhitespaceIgnored ==
    (find_pc = "done" /\ NoSpace(find_needle) # <<>>) =>
        \A other \in StrUpTo(MaxNeedleLen) :
            NoSpace(other) = NoSpace(find_needle) =>
                _find_ignoring_whitespace(find_haystack, other, find_offset)
                    = find_result

\* A needle with whitespace in the middle and at the end, found where the
\* needle without whitespace is found.
C18_Witness ==
    /\ find_pc = "done"
    /\ find_needle = <<"a", " ", " ">>
    /\ find_haystack = <<"b", " ", "a">>
    /\ find_result = 2
    /\ _find_ignoring_whitespace(find_haystack, <<"a">>, find_offset) = 2

\* ------------------------------------------- the refinement by titles

\* The text of the chapter stored under a title.
ChapterTextOf(title) ==
    chapters[CHOOSE j \in 1..Len(chapters) : chapters[j].title = title].text

\* The title of the entry whose chapter the loop made last, and the title of
\* the entry after it (empty when there is none).
CurrentTitle == sorted_all_bookmarks_info[i].title

NextTitle ==
    IF i < Len(sorted_all_bookmarks_info)
    THEN sorted_all_bookmarks_info[i + 1].title
    ELSE <<>>

\* Where the search finds the current title in the raw text of the chapter.
TitleStart == _find_ignoring_whitespace(chapter_text, CurrentTitle, 0)

\* Where the crop ends: where the next title is found from the crop's start
\* on, or the end of the raw text without a next title or without a match.
CropEnd(from) ==
    IF NextTitle = <<>> THEN Len(chapter_text)
    ELSE LET e == _find_ignoring_whitespace(chapter_text, NextTitle, from)
         IN IF e = -1 THEN Len(chapter_text) ELSE e

\* C13: when the current title is found at s in a raw text that is not empty,
\* the chapter's text is raw[s + len(title) : e], stripped, e being where the
\* next title is found from s + len(title) on, or the end of the raw text.
\* (SpecRefine)
C13_CropBetweenTitles ==
    (Extracted(i) /\ chapter_text # <<>> /\ TitleStart # -1) =>
        LET from == TitleStart + Len(CurrentTitle)
        IN ChapterTextOf(CurrentTitle)
               = Strip(SubSeq(chapter_text, from + 1, CropEnd(from)))

\* The title "a" found at the start of "aab" and the next title "b" found
\* after it: the chapter's text is the "a" between them.
C13_Witness ==
    /\ Extracted(i)
    /\ i = 1
    /\ chapter_text = <<"a", "a", "b">>
    /\ CurrentTitle = <<"a">>
    /\ NextTitle = <<"b">>
    /\ ChapterTextOf(CurrentTitle) = <<"a">>

\* C19: when the current title is not found in the raw text, the chapter's
\* text is the raw text, stripped, whatever the next title.  (SpecRefine)
C19_TitleNotFoundKeepsRawText ==
    (Extracted(i) /\ TitleStart = -1) =>
        ChapterTextOf(CurrentTitle) = Strip(chapter_text)

\* The title "b" is not in " aa", the next title "a" is: nothing is cropped.
C19_Witness ==
    /\ Extracted(i)
    /\ i = 1
    /\ chapter_text = <<" ", "a", "a">>
    /\ CurrentTitle = <<"b">>
    /\ NextTitle = <<"a">>
    /\ ChapterTextOf(CurrentTitle) = <<"a", "a">>

\* ------------------------------------------- the delays of the retries

RECURSIVE Pow(_, _)
Pow(b, e) == IF e = 0 THEN 1 ELSE b * Pow(b, e - 1)

\* C16: the k-th sleep of the wrapper has the nominal delay
\* initial_delay * backoff^(k-1), and the time slept (in tenths of a second)
\* lies between nominal * (1 - jitter) and nominal * (1 + jitter); there are
\* at most max_retries sleeps.  (SpecRetry)
C16_BackoffDelaysWithinJitter ==
    /\ w_pc # "start" => Len(sleeps) <= IF max_retries < 0 THEN 0 ELSE max_retries
    /\ \A k \in 1..Len(sleeps) :
        /\ sleeps[k].nominal = initial_delay * Pow(backoff, k - 1)
        /\ (10 - JitterTenths) * sleeps[k].nominal <= sleeps[k].wait
        /\ sleeps[k].wait <= (10 + JitterTenths) * sleeps[k].nominal
        /\ sleeps[k].after = k

\* Two sleeps with initial_delay = 2: the second one is nominally 4 seconds
\* and lasts the longest the jitter allows, 4.4 seconds.
C16_Witness ==
    /\ initial_delay = 2
    /\ Len(sleeps) = 2
    /\ sleeps[1].nominal = 2
    /\ sleeps[2].nominal = 4
    /\ sleeps[2].wait = 44

\* ------------------------------------- no outline and no resolvable entry

\* Some bookmark of the outline, at any depth, has a page.
RECURSIVE HasResolvableEntry(_)
HasResolvableEntry(outline_items) ==
    \E k \in 1..Len(outline_items) :
        IF outline_items[k].leaf
        THEN outline_items[k].res = "page"
        ELSE HasResolvableEntry(outline_items[k].items)

\* Some page of the document has text.
SomePageText == \E k \in 1..Len(pages) : pages[k] # <<>>

\* The result is the fallback: one chapter, of level 0, with the fallback
\* title.
IsFallbackResult ==
    /\ returned = "chapters"
    /\ Len(chapters) = 1
    /\ chapters[1].title = FallbackTitle
    /\ chapters[1].level = 0

\* C17 as stated: an empty outline gives the fallback chapter, an outline
\* without resolvable entry gives None.  (SpecCollect)
C17_EmptyOutlineAlwaysFallsBack ==
    bm_pc = "done" =>
        /\ bookmarks = <<>> => IsFallbackResult
        /\ (bookmarks # <<>> /\ ~HasResolvableEntry(bookmarks)) =>
               returned = "None"

\* C17: when some page has text, an empty outline gives the fallback chapter
\* and an outline without resolvable entry gives None, so that the two results
\* differ; without any text both give None.  (SpecCollect)
C17_EmptyOutlineFallsBackWhenText ==
    bm_pc = "done" =>
        /\ (bookmarks = <<>> /\ SomePageText) => IsFallbackResult
        /\ (bookmarks = <<>> /\ ~SomePageText) => returned = "None"
        /\ (bookmarks # <<>> /\ ~HasResolvableEntry(bookmarks)) =>
               returned = "None"

\* Pages with text and an outline of two bookmarks, nested, none of which
\* resolves: None, where the same pages without outline give the fallback.
C17_Witness ==
    /\ bm_pc = "done"
    /\ SomePageText
    /\ Len(bookmarks) = 2
    /\ bookmarks[1].leaf /\ bookmarks[1].res = "none"
    /\ ~bookmarks[2].leaf /\ bookmarks[2].items # <<>>
    /\ ~HasResolvableEntry(bookmarks)
    /\ returned = "None"

\* ------------------------------------------- the translation loop of main

\* The calls of the log made for chapter c (0-based), in the order of the log.
CallsOf(c) == SelectSeq(translate_calls, LAMBDA x : x.chapter = c)

\* The translation of chapter c failed: one of its calls raised.
ChapterFailed(c) == \E k \in 1..Len(CallsOf(c)) : ~CallsOf(c)[k].ok

\* s holds the elements of t, one after the other.
Contains(s, t) ==
    \E k \in 0..(Len(s) - Len(t)) : SubSeq(s, k + 1, k + Len(t)) = t

\* A text that is marked as the text of a failure.
MarkedFailure(s) == s # <<>> /\ s[1] = "--- chapter '" /\ s[Len(s)] = " ---"

\* C14: the loop of main stops only at its end; while it runs every chapter
\* it has left has one entry in translated_chapters and one in
\* original_texts_for_output, at the index of its title; at the end that is
\* every chapter; the entry of a chapter whose translation raised is a marked
\* placeholder that holds the chapter's title, the entry of any other chapter
\* is not marked.  (SpecMain)
C14_FailedChapterDoesNotStopTheLoop ==
    /\ (ENABLED MainNext) \/ main_pc \in {"done", "exit"}
    /\ main_pc \in {"chapter", "chunks", "done"} =>
        /\ Len(translated_chapters) = main_i
        /\ Len(original_texts_for_output) =
               main_i + (IF main_pc = "chunks" THEN 1 ELSE 0)
        /\ main_i <= Len(chapters_dict)
        /\ main_pc = "done" => main_i = Len(chapters_dict)
        /\ \A k \in 1..Len(original_texts_for_output) :
               original_texts_for_output[k] = chapters_dict[k].text
        /\ \A k \in 1..Len(translated_chapters) :
               IF ChapterFailed(k - 1)
               THEN /\ MarkedFailure(translated_chapters[k])
                    /\ Contains(translated_chapters[k], chapters_dict[k].title)
               ELSE ~MarkedFailure(translated_chapters[k])

\* Two chapters: the first one fails at its second chunk, the second one is
\* translated.
C14_Witness ==
    /\ main_pc = "done"
    /\ Len(chapters_dict) = 2
    /\ ChapterFailed(0)
    /\ Len(CallsOf(0)) = 2
    /\ ~ChapterFailed(1)
    /\ translated_chapters[2] = Translation(chapters_dict[2].text)

\* The k-th piece (0-based) of a text cut every n characters.
Piece(t, k, n) == SubSeq(t, k * n + 1, Min((k + 1) * n, Len(t)))

\* C15: no text passed to translate_text_chunk is longer than max_chunk_size;
\* a chapter that is not longer is passed whole, a longer one piece by piece,
\* the pieces being those of split_text.  (SpecMain)
C15_TranslatedTextsWithinMaxChunkSize ==
    \A k \in 1..Len(translate_calls) :
        LET call == translate_calls[k]
            whole == chapters_dict[call.chapter + 1].text
        IN /\ Len(call.text) <= main_max_chunk_size
           /\ IF Len(whole) <= main_max_chunk_size
              THEN call.text = whole /\ call.chunk = 0
              ELSE call.text = Piece(whole, call.chunk, main_max_chunk_size)

\* A chapter of three characters with max_chunk_size = 2: two calls, with two
\* characters and with one.
C15_Witness ==
    /\ main_pc = "done"
    /\ main_max_chunk_size = 2
    /\ Len(chapters_dict) = 1
    /\ Len(chapters_dict[1].text) = 3
    /\ Len(translate_calls) = 2
    /\ Len(translate_calls[1].text) = 2
    /\ Len(translate_calls[2].text) = 1

\* The results of a sequence of calls, with a newline before each but the
\* first, as one text.
ResultsInLines(cs) ==
    Concat([k \in 1..Len(cs) |->
                IF k = 1 THEN cs[k].result ELSE <<"\n">> \o cs[k].result])

\* C20: the calls are made in the order of the chapters and, in a chapter, in
\* the order of its chunks, each chunk once; the translated text of a chapter
\* that did not fail is the results of its calls joined in that order with a
\* newline between them.  (SpecMain)
C20_CallsInOrderAndJoined ==
    /\ \A k \in 1..Len(translate_calls) :
        LET call == translate_calls[k]
        IN IF k = 1
           THEN call.chapter = 0 /\ call.chunk = 0
           ELSE LET prev == translate_calls[k - 1]
                IN IF call.chapter = prev.chapter
                   THEN call.chunk = prev.chunk + 1 /\ prev.ok
                   ELSE call.chapter = prev.chapter + 1 /\ call.chunk = 0
    /\ \A k \in 1..Len(translated_chapters) :
        ~ChapterFailed(k - 1) =>
            translated_chapters[k] = ResultsInLines(CallsOf(k - 1))

\* A chapter cut in two chunks with different translations, joined in the
\* order of the chunks, and a second chapter after it.
C20_Witness ==
    /\ main_pc = "done"
    /\ Len(chapters_dict) = 2
    /\ Len(CallsOf(0)) = 2
    /\ CallsOf(0)[1].result = <<"T", "a", "a">>
    /\ CallsOf(0)[2].result = <<"T", "a">>
    /\ translated_chapters[1] = <<"T", "a", "a", "\n", "T", "a">>
    /\ Len(CallsOf(1)) = 1

\* ------------------------------------------------ the wrapper, once more

\* C25 as stated: for every max_retries, negative ones included, a wrapper
\* that finished has called the function at least once, and what it returned
\* or raised is what the last call returned or raised.  (SpecRetry)
C25_WrapperCallsAtLeastOnce ==
    w_pc \in {"returned", "raised"} =>
        /\ Len(calls) >= 1
        /\ w_result = calls[Len(calls)]
        /\ (w_pc = "returned") = (w_result.kind = "return")

\* max_retries = -1: the wrapper returns None without a call.
C25_Witness ==
    /\ w_pc = "returned"
    /\ max_retries < 0
    /\ calls = <<>>
    /\ w_result = ReturnsNone

\* C26: a wrapper that returned the value of a call has called the function
\* f + 1 times, f <= max_retries, the first f calls failed with a retry status
\* and the last one returned that value; it slept f times, the k-th sleep after
\* the k-th call and before the next; a wrapper that returned calls and sleeps
\* no more.  (SpecRetry)
C26_SuccessAfterRetries ==
    /\ [](w_pc = "returned" /\ w_result.kind = "return" =>
            LET f == Len(calls) - 1
            IN /\ f >= 0 /\ f <= max_retries
               /\ w_result = calls[f + 1]
               /\ \A k \in 1..f :
                    /\ calls[k].kind \in {"HttpError", "APIError"}
                    /\ calls[k].status \in retry_status_codes
               /\ Len(sleeps) = f
               /\ \A k \in 1..f : sleeps[k].after = k)
    /\ [][w_pc = "returned" => calls' = calls /\ sleeps' = sleeps]_vars

\* Two retryable failures, two sleeps, then the value of the third call.
C26_Witness ==
    /\ w_pc = "returned"
    /\ Len(calls) = 3
    /\ calls[1].status = 503 /\ calls[2].status = 500
    /\ w_result = calls[3] /\ w_result.kind = "return"
    /\ Len(sleeps) = 2

\* C21: a wrapper in its loop has the attempt count and the delay that its own
\* calls and sleeps give, retries = number of its sleeps and current_delay =
\* initial_delay * backoff^retries: 0 and initial_delay before its first call,
\* whatever the invocations before it did.  (SpecRetryAgain)
C21_RetryStateIsPerInvocation ==
    w_pc = "loop" =>
        /\ retries = Len(sleeps)
        /\ Len(calls) = Len(sleeps)
        /\ current_delay = initial_delay * Pow(backoff, Len(sleeps))

\* An invocation about to make its first call, after an invocation that raised
\* at its third call, that is after two retries.
C21_Witness ==
    /\ w_pc = "loop"
    /\ calls = <<>>
    /\ w_result.kind = "HttpError" /\ w_result.id = 3
    /\ retries = 0
    /\ current_delay = initial_delay
    /\ max_retries = 2

\* ------------------------------------------------- the scan, pass by pass

\* What the passes still have before them: the start of the match (h_idx
\* when there is none) never goes back, and h_idx goes on while it stays.
ScanMeasure ==
    LET len == Len(find_haystack)
        from == IF find_potential_start # -1 THEN find_potential_start
                ELSE find_h_idx
    IN (len + 2 - from) * (len + 3) + (len + 2 - find_h_idx)

\* C27: for every haystack, needle and start_offset the scan reaches a return:
\* it ends with the result of the function, and with every pass that does not
\* return, the one that goes back after a mismatch included, the measure of
\* what is left gets smaller and stays positive.  (SpecFindSteps)
C27_ScanTerminates ==
    /\ <>(find_pc = "done")
    /\ [](find_pc = "done" =>
            find_result = _find_ignoring_whitespace(find_haystack,
                                                    find_needle, find_offset))
    /\ [](find_pc = "scan" => ScanMeasure > 0)
    /\ [][find_pc = "scan" /\ find_pc' = "scan" =>
              ScanMeasure' < ScanMeasure]_vars

\* A scan that went back: in the haystack "aaab" the needle "aab" matched at
\* 0 and 1 and failed at 2, and the scan is at 1 again.
C27_Witness ==
    /\ find_pc = "scan"
    /\ find_haystack = <<"a", "a", "a", "b">>
    /\ find_needle = <<"a", "a", "b">>
    /\ find_offset = 0
    /\ find_h_idx = 1
    /\ find_n_idx = 0
    /\ find_potential_start = -1

\* ----------------------------------------- the calls of external services

\* A call that went through the wrapper: a failure with a retry status is
\* what the function got only after max_retries further calls.
RetriedToTheEnd(c) ==
    /\ c.wrapper
    /\ (Retryable(c.result) /\ max_retries >= 0) => c.attempts = max_retries + 1

External(call) == ~IsBlank(call.text)

\* time.sleep(sleep_time) was called after the call: the call returned, and
\* the sleep returned or raised.
Paused(call) == call.ok \/ call.result = <<"S">>

\* C22 as stated: every call of the service that another call follows,
\* whether it returned or raised, was followed by the pause.  (SpecMain)
C22_PauseAfterEveryCall ==
    \A k \in 1..(Len(translate_calls) - 1) :
        External(translate_calls[k]) => Paused(translate_calls[k])

\* The translation of the first chapter raises and the second chapter is
\* translated with no pause between the two calls.
C22_Witness ==
    /\ Len(translate_calls) = 2
    /\ ~translate_calls[1].ok /\ translate_calls[1].result = <<"E">>
    /\ translate_calls[2].chapter = 1
    /\ translate_calls[2].ok
    /\ External(translate_calls[2])

OnlyWhitespace(t) == \A k \in 1..Len(t) : IsSpace(t[k])

\* The entry of chapter c (1-based) is that of a chapter without text: one
\* call of translate_text_chunk, which did not reach the service, and "" as
\* the translated text.
BlankChapterEntry(c) ==
    /\ Len(CallsOf(c - 1)) = 1
    /\ ~External(CallsOf(c - 1)[1])
    /\ CallsOf(c - 1)[1].result # <<"E">>
    /\ translated_chapters[c] = <<>>
    /\ original_texts_for_output[c] = chapters_dict[c].text

====
